---- MODULE Spec2Model ----
(***************************************************************************)
(* Model of ai-doc-gen's analysis orchestration (src/agents/analyzer.py):  *)
(* AnalyzerAgent.__init__, AnalyzerAgent.run, AnalyzerAgent._run_agent,    *)
(* AnalyzerAgent.validate_succession and AnalyzerAgent._cleanup_output.    *)
(*                                                                         *)
(* Text is a sequence of one-character strings; a path is a sequence of    *)
(* path components below the filesystem root.                              *)
(***************************************************************************)
EXTENDS Integers, Sequences, FiniteSets, TLC

(***************************************************************************)
(* Bounds of the model.                                                    *)
(***************************************************************************)
\* At most this many artifact files exist before run starts (left by an
\* earlier run of the tool on the same repository).
MaxPreexisting == 1
\* At most this many tasks of one run are made to fail by their environment.
MaxFaults == 2
\* Longest list of paths handed to validate_succession in SpecSuccession.
MaxFiles == 3

(***************************************************************************)
(* Configuration: AnalyzerAgentConfig                                      *)
(***************************************************************************)
\* The order in which run looks at the analysis kinds.
KindOrder ==
    <<"code_structure", "dependencies", "data_flow", "request_flow", "api_analysis">>

Kinds == {KindOrder[i] : i \in DOMAIN KindOrder}

\* Repository roots the model runs on: /r
RepoPaths == {<<"r">>}

AnalyzerAgentConfig ==
    [repo_path : RepoPaths,
     exclude_code_structure : BOOLEAN,
     exclude_data_flow : BOOLEAN,
     exclude_dependencies : BOOLEAN,
     exclude_request_flow : BOOLEAN,
     exclude_api_analysis : BOOLEAN]

\* A copy-and-paste slip: the dependencies block tests the data-flow toggle.
ExcludedSwapped(c, k) ==
    CASE k = "code_structure" -> c.exclude_code_structure
      [] k = "dependencies" -> c.exclude_data_flow
      [] k = "data_flow" -> c.exclude_data_flow
      [] k = "request_flow" -> c.exclude_request_flow
      [] k = "api_analysis" -> c.exclude_api_analysis

\* The toggle run tests before building the task of kind k.
Excluded(c, k) ==
    CASE k = "code_structure" -> c.exclude_code_structure
      [] k = "dependencies" -> c.exclude_dependencies
      [] k = "data_flow" -> c.exclude_data_flow
      [] k = "request_flow" -> c.exclude_request_flow
      [] k = "api_analysis" -> c.exclude_api_analysis

\* A slip that rejects a configuration as soon as one toggle is set.
AnyExcluded(c) ==
    \/ c.exclude_code_structure
    \/ c.exclude_data_flow
    \/ c.exclude_dependencies
    \/ c.exclude_request_flow
    \/ c.exclude_api_analysis

\* __init__: all([...]) over the five toggles.
AllExcluded(c) ==
    /\ c.exclude_code_structure
    /\ c.exclude_data_flow
    /\ c.exclude_dependencies
    /\ c.exclude_request_flow
    /\ c.exclude_api_analysis

(***************************************************************************)
(* Paths and text                                                          *)
(***************************************************************************)
\* str(Path) of an absolute path: "/" before every component.
RECURSIVE PathStr(_)
PathStr(p) ==
    IF p = <<>> THEN <<>>
    ELSE <<"/">> \o <<p[1]>> \o PathStr(Tail(p))

FileName(k) ==
    CASE k = "code_structure" -> "structure_analysis.md"
      [] k = "dependencies" -> "dependency_analysis.md"
      [] k = "data_flow" -> "data_flow_analysis.md"
      [] k = "request_flow" -> "request_flow_analysis.md"
      [] k = "api_analysis" -> "api_analysis.md"

\* The path run appends to analysis_files for kind k.
ExpectedFile(repo, k) == repo \o <<".ai", "docs", FileName(k)>>

\* A slip that gives the data-flow task the file of the dependency task.
TaskFileCollision(repo, k) ==
    IF k = "data_flow" THEN repo \o <<".ai", "docs", FileName("dependencies")>>
    ELSE repo \o <<".ai", "docs", FileName(k)>>

\* A slip that writes the API analysis next to the docs area, not in it.
TaskFileOutsideDocs(repo, k) ==
    IF k = "api_analysis" THEN repo \o <<".ai", FileName(k)>>
    ELSE repo \o <<".ai", "docs", FileName(k)>>

\* The file_path run passes to _run_agent for kind k.
TaskFile(repo, k) == repo \o <<".ai", "docs", FileName(k)>>

\* Python's str.replace(old, new) for a non-empty old: leftmost
\* non-overlapping occurrences, scanning left to right.
RECURSIVE Replace(_, _, _)
Replace(s, old, new) ==
    IF Len(s) < Len(old) THEN s
    ELSE IF SubSeq(s, 1, Len(old)) = old
         THEN new \o Replace(SubSeq(s, Len(old) + 1, Len(s)), old, new)
         ELSE <<s[1]>> \o Replace(Tail(s), old, new)

\* output.replace(repo_str, ".", 1): only the first occurrence is replaced.
ReplaceRepoPathOnce(repo_str, output) ==
    LET n == Len(repo_str)
        hits == {i \in 1..(Len(output) - n + 1) :
                    SubSeq(output, i, i + n - 1) = repo_str}
    IN  IF hits = {} THEN output
        ELSE LET i == CHOOSE h \in hits : \A g \in hits : h <= g
             IN  SubSeq(output, 1, i - 1) \o <<".">> \o
                 SubSeq(output, i + n, Len(output))

\* _cleanup_output, line 323, on the string str(self._config.repo_path).
ReplaceRepoPath(repo_str, output) == Replace(output, repo_str, <<".">>)

\* _cleanup_output: output.replace(str(repo_path), ".")
CleanupOutput(repo, output) == ReplaceRepoPath(PathStr(repo), output)

(***************************************************************************)
(* The world outside the program                                           *)
(***************************************************************************)
\* One letter per analysis kind, for the text the Agent Runtime writes.
KindTag(k) ==
    CASE k = "code_structure" -> "s"
      [] k = "dependencies" -> "d"
      [] k = "data_flow" -> "f"
      [] k = "request_flow" -> "q"
      [] k = "api_analysis" -> "a"

\* markdown_content values the Agent Runtime may return for the task of kind
\* k: text that names a file of the repository by its absolute path.
Outputs(repo, k) == {PathStr(repo) \o <<"/", KindTag(k)>>}

NoOutput == <<>>

\* Content of an artifact left by an earlier run.
OldContent == <<"o">>

NoFile == [exists |-> FALSE, content |-> <<>>]

File(content) == [exists |-> TRUE, content |-> content]

\* Every path the model's filesystem tracks.
AllPaths ==
    UNION {{ExpectedFile(r, k), TaskFile(r, k)} : r \in RepoPaths, k \in Kinds}

\* Where the code after agent.run can raise: the metrics log (lines 172-182),
\* mkdir (185), open (187), write (188-189), the saved log and the span
\* attribute (191-192).
Faults == {"none", "metrics", "mkdir", "open", "write", "span_attr"}

NotBuilt == [st |-> "none", err |-> "none", out |-> NoOutput]

VARIABLES
    cfg,            \* the AnalyzerAgentConfig handed to __init__
    pc,             \* where the caller is: start, constructed, gather, returned, raised
    run_error,      \* the error __init__ or run raised to the caller
    tasks,          \* run's local list of built _run_agent coroutines
    analysis_files, \* run's local list of expected artifact paths
    ts,             \* per kind: the state of its _run_agent coroutine
    results,        \* what asyncio.gather returned
    fs,             \* the filesystem: path -> file
    fs0,            \* the filesystem when run started
    docs_dir,       \* whether <repo>/.ai/docs exists
    agent_calls,    \* number of agent.run calls made
    vs_files,       \* SpecSuccession: the list validate_succession is called with
    vs_out,         \* SpecSuccession: what that call did
    doc,            \* SpecDocumenter: the document command (DocumenterAgent.run)
    cl,             \* SpecCleanup: one text put through _cleanup_output twice
    fr,             \* SpecFileRead: one call of FileReadTool._run
    lf,             \* SpecListFiles: one call of ListFilesTool._run
    http,           \* SpecHttp: one request through the retrying client
    cf,             \* SpecConfig: one call of load_config
    lg              \* SpecLogger: the Logger class and the calls made on it

\* The state of the commands and tools other than analyze.
others == <<doc, cl, fr, lf, http, cf, lg>>

vars ==
    <<cfg, pc, run_error, tasks, analysis_files, ts, results, fs, fs0, docs_dir,
      agent_calls, vs_files, vs_out, others>>

\* Nothing but the analyze command is running.
docIdle == [pc |-> "unused"]
clIdle == [pc |-> "unused"]
frIdle == [pc |-> "unused"]
lfIdle == [pc |-> "unused"]
httpIdle == [pc |-> "unused"]
cfIdle == [pc |-> "unused"]
lgIdle == [pc |-> "unused"]

OthersIdle ==
    /\ doc = docIdle
    /\ cl = clIdle
    /\ fr = frIdle
    /\ lf = lfIdle
    /\ http = httpIdle
    /\ cf = cfIdle
    /\ lg = lgIdle

vsIdle == [status |-> "none", missing |-> <<>>, generated |-> 0, total |-> 0]

\* The analyze command is not running: no agent is constructed, nothing is
\* on disk.
AnalyzeIdle ==
    /\ cfg \in {c \in AnalyzerAgentConfig : AllExcluded(c)}
    /\ pc = "unused"
    /\ run_error = "none"
    /\ tasks = <<>>
    /\ analysis_files = <<>>
    /\ ts = [k \in Kinds |-> NotBuilt]
    /\ results = <<>>
    /\ fs = [p \in AllPaths |-> NoFile]
    /\ fs0 = fs
    /\ docs_dir = FALSE
    /\ agent_calls = 0
    /\ vs_files = <<>>
    /\ vs_out = vsIdle

\* The variables of the analyze command, for the commands that leave them alone.
analyze_vars ==
    <<cfg, pc, run_error, tasks, analysis_files, ts, results, fs, fs0, docs_dir,
      agent_calls, vs_files, vs_out>>

(***************************************************************************)
(* AnalyzerAgent.validate_succession                                       *)
(***************************************************************************)
\* missing_files: the files of the list that do not exist, in list order.
MissingFiles(files, fsys) ==
    SelectSeq(files, LAMBDA f : ~fsys[f].exists)

\* A check that counts only what this run wrote: a file is generated if it
\* exists and the task that writes to it succeeded.
ValidateSuccessionByOutcome(files, fsys) ==
    LET written(f) == /\ fsys[f].exists
                      /\ \E k \in Kinds : /\ TaskFile(cfg.repo_path, k) = f
                                          /\ ts[k].st = "ok"
        missing == SelectSeq(files, LAMBDA f : ~written(f))
    IN  IF missing = <<>>
        THEN [status |-> "all", missing |-> <<>>, generated |-> Len(files),
              total |-> Len(files)]
        ELSE IF Len(missing) = Len(files)
        THEN [status |-> "raise", missing |-> missing, generated |-> 0,
              total |-> Len(files)]
        ELSE [status |-> "partial", missing |-> missing,
              generated |-> Len(files) - Len(missing), total |-> Len(files)]

\* The documenter's strict rule: raise as soon as one file is missing.
ValidateSuccessionStrict(files, fsys) ==
    LET missing == MissingFiles(files, fsys) IN
    IF missing = <<>>
    THEN [status |-> "all", missing |-> <<>>, generated |-> Len(files),
          total |-> Len(files)]
    ELSE [status |-> "raise", missing |-> missing, generated |-> 0,
          total |-> Len(files)]

\* status: "all" (info log, return), "raise" (ValueError), "partial" (warning
\* naming the missing files and generated/total, return).
ValidateSuccession(files, fsys) ==
    LET missing == MissingFiles(files, fsys) IN
    IF missing = <<>>
    THEN [status |-> "all", missing |-> <<>>, generated |-> Len(files),
          total |-> Len(files)]
    ELSE IF Len(missing) = Len(files)
    THEN [status |-> "raise", missing |-> missing, generated |-> 0,
          total |-> Len(files)]
    ELSE [status |-> "partial", missing |-> missing,
          generated |-> Len(files) - Len(missing), total |-> Len(files)]

(***************************************************************************)
(* AnalyzerAgent.run: building the tasks                                   *)
(***************************************************************************)
NothingBuilt == [files |-> <<>>, tasks |-> <<>>]

\* One "if not self._config.exclude_...:" block of run.
Block(acc, c, k) ==
    IF ~Excluded(c, k)
    THEN [files |-> Append(acc.files, ExpectedFile(c.repo_path, k)),
          tasks |-> Append(acc.tasks,
                           [kind |-> k, file_path |-> TaskFile(c.repo_path, k)])]
    ELSE acc

\* The first n blocks of run, in order.
RECURSIVE BuildUpTo(_, _)
BuildUpTo(c, n) ==
    IF n = 0 THEN NothingBuilt
    ELSE Block(BuildUpTo(c, n - 1), c, KindOrder[n])

BuildTasks(c) == BuildUpTo(c, Len(KindOrder))

(***************************************************************************)
(* AnalyzerAgent._run_agent                                                *)
(***************************************************************************)
\* The documenter's write: result.output.markdown_content goes to the file
\* as the Agent Runtime returned it.
PersistUnsanitized(file, dir, repo, out, fault) ==
    LET made == IF ~file.exists THEN TRUE ELSE dir
    IN  CASE fault = "metrics" ->
               [file |-> file, dir |-> dir, st |-> "failed"]
          [] fault = "mkdir" ->
               [file |-> file, dir |-> dir, st |-> "failed"]
          [] fault = "open" ->
               [file |-> file, dir |-> made, st |-> "failed"]
          [] fault = "write" ->
               [file |-> File(<<>>), dir |-> made, st |-> "failed"]
          [] fault = "span_attr" ->
               [file |-> File(out), dir |-> made, st |-> "failed"]
          [] fault = "none" ->
               [file |-> File(out), dir |-> made, st |-> "ok"]

\* Lines 172-192, which run without suspension once agent.run has returned
\* `out`, raising at `fault`: the file and the docs directory afterwards and
\* how the coroutine ends.
Persist(file, dir, repo, out, fault) ==
    LET made == IF ~file.exists THEN TRUE ELSE dir
        text == CleanupOutput(repo, out)
    IN  CASE fault = "metrics" ->
               [file |-> file, dir |-> dir, st |-> "failed"]
          [] fault = "mkdir" ->
               [file |-> file, dir |-> dir, st |-> "failed"]
          [] fault = "open" ->
               [file |-> file, dir |-> made, st |-> "failed"]
          [] fault = "write" ->
               [file |-> File(<<>>), dir |-> made, st |-> "failed"]
          [] fault = "span_attr" ->
               [file |-> File(text), dir |-> made, st |-> "failed"]
          [] fault = "none" ->
               [file |-> File(text), dir |-> made, st |-> "ok"]

\* mkdir runs, and can fail, only when the file is missing; with
\* parents=True, exist_ok=True it fails only if it has a directory to make.
FaultPossible(file, dir, fault) ==
    fault = "mkdir" => (~file.exists /\ ~dir)

(***************************************************************************)
(* asyncio.gather over tasks with return_exceptions=True                   *)
(***************************************************************************)
Terminal == {"ok", "failed"}

\* A fail-fast dispatch: the first exception cancels every sibling that has
\* not finished.
SettleCancelSiblings(t, k, outcome) ==
    [j \in DOMAIN t |->
        IF j = k THEN outcome
        ELSE IF outcome.st = "failed" /\ t[j].st \in {"created", "running"}
             THEN [st |-> "failed", err |-> "cancelled", out |-> NoOutput]
             ELSE t[j]]

\* return_exceptions=True: the outcome of task k is recorded in its own slot
\* and no other task is touched.
Settle(t, k, outcome) == [t EXCEPT ![k] = outcome]

\* gather without return_exceptions: it returns on the first exception.
GatherFailFast(t, tk) ==
    \/ \E i \in DOMAIN tk : t[tk[i].kind].st = "failed"
    \/ \A i \in DOMAIN tk : t[tk[i].kind].st \in Terminal

\* gather returns when every awaitable has returned or raised.
GatherDone(t, tk) ==
    \A i \in DOMAIN tk : t[tk[i].kind].st \in Terminal

\* The list gather returns: one entry per awaitable, in the order of tasks.
GatherResults(t, tk) ==
    [i \in DOMAIN tk |-> [kind |-> tk[i].kind, st |-> t[tk[i].kind].st]]

\* Lines 124-133: both branches of the loop body format
\* tasks[i].agent.name, and tasks[i] is a coroutine object, which has no
\* attribute `agent`: the first iteration raises AttributeError.
LogResults(res) ==
    IF Len(res) > 0 THEN "AttributeError" ELSE "logged"

(***************************************************************************)
(* The state machine of one analyze command                                *)
(***************************************************************************)
Preexisting ==
    {S \in SUBSET AllPaths : Cardinality(S) <= MaxPreexisting}

Init ==
    /\ cfg \in AnalyzerAgentConfig
    /\ pc = "start"
    /\ run_error = "none"
    /\ tasks = <<>>
    /\ analysis_files = <<>>
    /\ ts = [k \in Kinds |-> NotBuilt]
    /\ results = <<>>
    /\ \E S \in Preexisting :
          /\ fs = [p \in AllPaths |-> IF p \in S THEN File(OldContent) ELSE NoFile]
          /\ docs_dir \in (IF S = {} THEN BOOLEAN ELSE {TRUE})
    /\ fs0 = fs
    /\ agent_calls = 0
    /\ vs_files = <<>>
    /\ vs_out = vsIdle
    /\ OthersIdle

\* AnalyzerAgent(cfg): __init__
Construct ==
    /\ pc = "start"
    /\ IF AllExcluded(cfg)
       THEN pc' = "raised" /\ run_error' = "ConfigError"
       ELSE pc' = "constructed" /\ run_error' = run_error
    /\ UNCHANGED <<cfg, tasks, analysis_files, ts, results, fs, fs0, docs_dir,
                   agent_calls, vs_files, vs_out, others>>

\* run, lines 52-116: every block builds its agent, renders its prompt and
\* creates the coroutine; nothing is awaited yet.
RunBuild ==
    /\ pc = "constructed"
    /\ LET b == BuildTasks(cfg) IN
       /\ tasks' = b.tasks
       /\ analysis_files' = b.files
       /\ ts' = [k \in Kinds |->
                   IF \E i \in DOMAIN b.tasks : b.tasks[i].kind = k
                   THEN [st |-> "created", err |-> "none", out |-> NoOutput]
                   ELSE NotBuilt]
    /\ pc' = "gather"
    /\ UNCHANGED <<cfg, run_error, results, fs, fs0, docs_dir, agent_calls,
                   vs_files, vs_out, others>>

\* Tasks started as soon as they are built (asyncio.create_task in each
\* block): those built before the failing block have called agent.run.
RunBuildRaisesAfterStart ==
    /\ pc = "constructed"
    /\ \E n \in DOMAIN KindOrder :
          /\ ~Excluded(cfg, KindOrder[n])
          /\ LET b == BuildUpTo(cfg, n - 1) IN
             /\ tasks' = b.tasks
             /\ analysis_files' =
                   Append(b.files, ExpectedFile(cfg.repo_path, KindOrder[n]))
             /\ ts' = [k \in Kinds |->
                         IF \E i \in DOMAIN b.tasks : b.tasks[i].kind = k
                         THEN [st |-> "running", err |-> "none", out |-> NoOutput]
                         ELSE NotBuilt]
             /\ agent_calls' = Len(b.tasks)
    /\ pc' = "raised"
    /\ run_error' = "BuildError"
    /\ UNCHANGED <<cfg, results, fs, fs0, docs_dir, vs_files, vs_out, others>>

\* run, lines 56-114, when building the agent or rendering the prompt of
\* the n-th kind raises: the coroutines built so far are never awaited.
RunBuildRaises ==
    /\ pc = "constructed"
    /\ \E n \in DOMAIN KindOrder :
          /\ ~Excluded(cfg, KindOrder[n])
          /\ LET b == BuildUpTo(cfg, n - 1) IN
             /\ tasks' = b.tasks
             /\ analysis_files' =
                   Append(b.files, ExpectedFile(cfg.repo_path, KindOrder[n]))
             /\ ts' = [k \in Kinds |->
                         IF \E i \in DOMAIN b.tasks : b.tasks[i].kind = k
                         THEN [st |-> "created", err |-> "none", out |-> NoOutput]
                         ELSE NotBuilt]
    /\ pc' = "raised"
    /\ run_error' = "BuildError"
    /\ UNCHANGED <<cfg, results, fs, fs0, docs_dir, agent_calls, vs_files, vs_out, others>>

\* The environment may still make a task fail.
MayFail == Cardinality({k \in Kinds : ts[k].st = "failed"}) < MaxFaults

\* A task that waits for every sibling to have started before it starts.
SiblingsStarted(i) ==
    \A j \in DOMAIN tasks : j # i => ts[tasks[j].kind].st # "created"

\* The event loop steps the coroutines in the order gather scheduled them.
EarlierStarted(i) ==
    \A j \in 1..(i - 1) : ts[tasks[j].kind].st # "created"

\* _run_agent up to its first suspension: the task-started event (line 162),
\* the log (165), then agent.run is awaited (167-171).
TaskStart(i) ==
    /\ pc = "gather"
    /\ ts[tasks[i].kind].st = "created"
    /\ EarlierStarted(i)
    /\ \/ /\ MayFail
          /\ ts' = Settle(ts, tasks[i].kind,
                          [st |-> "failed", err |-> "event", out |-> NoOutput])
          /\ agent_calls' = agent_calls
       \/ /\ ts' = [ts EXCEPT ![tasks[i].kind].st = "running"]
          /\ agent_calls' = agent_calls + 1
    /\ UNCHANGED <<cfg, pc, run_error, tasks, analysis_files, results, fs, fs0,
                   docs_dir, vs_files, vs_out, others>>

\* A wrapper that opens the output file before it awaits agent.run: the
\* file is created or truncated even when the call raises.
TaskRuntimeRaisesAfterOpen(i) ==
    /\ pc = "gather"
    /\ ts[tasks[i].kind].st = "running"
    /\ MayFail
    /\ ts' = Settle(ts, tasks[i].kind,
                    [st |-> "failed", err |-> "runtime", out |-> NoOutput])
    /\ fs' = [fs EXCEPT ![tasks[i].file_path] = File(<<>>)]
    /\ docs_dir' = TRUE
    /\ UNCHANGED <<cfg, pc, run_error, tasks, analysis_files, results, fs0,
                   agent_calls, vs_files, vs_out, others>>

\* agent.run raises (UnexpectedModelBehavior or any other exception): logged
\* and re-raised, lines 194-199.
TaskRuntimeRaises(i) ==
    /\ pc = "gather"
    /\ ts[tasks[i].kind].st = "running"
    /\ MayFail
    /\ ts' = Settle(ts, tasks[i].kind,
                    [st |-> "failed", err |-> "runtime", out |-> NoOutput])
    /\ UNCHANGED <<cfg, pc, run_error, tasks, analysis_files, results, fs, fs0,
                   docs_dir, agent_calls, vs_files, vs_out, others>>

\* agent.run returns a result: lines 172-192.
TaskRuntimeReturns(i) ==
    /\ pc = "gather"
    /\ ts[tasks[i].kind].st = "running"
    /\ \E out \in Outputs(cfg.repo_path, tasks[i].kind), fault \in Faults :
          LET p == tasks[i].file_path
              r == Persist(fs[p], docs_dir, cfg.repo_path, out, fault)
          IN  /\ fault # "none" => MayFail
              /\ FaultPossible(fs[p], docs_dir, fault)
              /\ fs' = [fs EXCEPT ![p] = r.file]
              /\ docs_dir' = r.dir
              /\ ts' = Settle(ts, tasks[i].kind,
                              [st |-> r.st,
                               err |-> IF r.st = "ok" THEN "none" ELSE fault,
                               out |-> out])
    /\ UNCHANGED <<cfg, pc, run_error, tasks, analysis_files, results, fs0,
                   agent_calls, vs_files, vs_out, others>>

\* run, lines 119-135, from the moment gather returns: the results are
\* logged, then validate_succession decides how run ends.
RunAfterGather ==
    /\ pc = "gather"
    /\ GatherDone(ts, tasks)
    /\ LET res == GatherResults(ts, tasks)
           verdict == ValidateSuccession(analysis_files, fs)
       IN  /\ results' = res
           /\ IF LogResults(res) = "AttributeError"
              THEN pc' = "raised" /\ run_error' = "AttributeError"
              ELSE IF verdict.status = "raise"
              THEN pc' = "raised" /\ run_error' = "TotalFailure"
              ELSE pc' = "returned" /\ run_error' = run_error
    /\ UNCHANGED <<cfg, tasks, analysis_files, ts, fs, fs0, docs_dir, agent_calls,
                   vs_files, vs_out, others>>

Next ==
    \/ Construct
    \/ RunBuild
    \/ RunBuildRaises
    \/ \E i \in DOMAIN tasks : TaskStart(i)
    \/ \E i \in DOMAIN tasks : TaskRuntimeRaises(i)
    \/ \E i \in DOMAIN tasks : TaskRuntimeReturns(i)
    \/ RunAfterGather

Spec == Init /\ [][Next]_vars

\* The event loop runs every coroutine that can take a step, and every
\* awaited agent.run eventually returns or raises.
\* Progress is checked for runs that start with no artifact on disk.
InitLive ==
    /\ Init
    /\ \A p \in AllPaths : ~fs[p].exists

SpecLive == InitLive /\ [][Next]_vars /\ WF_vars(Next)

(***************************************************************************)
(* validate_succession on its own: any list of paths, any filesystem       *)
(***************************************************************************)
RECURSIVE SeqsUpTo(_, _)
SeqsUpTo(S, n) ==
    IF n = 0 THEN {<<>>}
    ELSE LET shorter == SeqsUpTo(S, n - 1) IN
         shorter \cup {Append(q, x) : q \in shorter, x \in S}

InitSuccession ==
    /\ cfg \in {c \in AnalyzerAgentConfig : \A k \in Kinds : ~Excluded(c, k)}
    /\ pc = "succession"
    /\ run_error = "none"
    /\ tasks = <<>>
    /\ analysis_files = <<>>
    /\ ts = [k \in Kinds |-> NotBuilt]
    /\ results = <<>>
    /\ \E S \in SUBSET AllPaths :
          fs = [p \in AllPaths |-> IF p \in S THEN File(OldContent) ELSE NoFile]
    /\ docs_dir = TRUE
    /\ fs0 = fs
    /\ agent_calls = 0
    /\ vs_files \in SeqsUpTo(AllPaths, MaxFiles)
    /\ vs_out = vsIdle
    /\ OthersIdle

\* agent.validate_succession(vs_files)
CallValidateSuccession ==
    /\ pc = "succession"
    /\ vs_out' = ValidateSuccession(vs_files, fs)
    /\ IF vs_out'.status = "raise"
       THEN pc' = "raised" /\ run_error' = "TotalFailure"
       ELSE pc' = "returned" /\ run_error' = run_error
    /\ UNCHANGED <<cfg, tasks, analysis_files, ts, results, fs, fs0, docs_dir,
                   agent_calls, vs_files, others>>

NextSuccession == CallValidateSuccession

SpecSuccession == InitSuccession /\ [][NextSuccession]_vars

(***************************************************************************)
(* _cleanup_output on its own: any repository path string, any output      *)
(***************************************************************************)
MaxRepoLen == 3
MaxOutLen == 4

\* The characters of the texts: the separator, a letter and the dot.
Chars == {"/", "a", "."}

\* s[i] is a whole path component "." of s.
DotComponentAt(s, i) ==
    /\ s[i] = "."
    /\ (i = 1 \/ s[i - 1] = "/")
    /\ (i = Len(s) \/ s[i + 1] = "/")

\* The strings str(Path(...)) gives: never empty; "." components, doubled
\* and trailing separators are dropped by Path, so they appear only in "."
\* and "/" themselves.
IsPathStr(s) ==
    /\ s # <<>>
    /\ \/ s = <<".">>
       \/ \A i \in DOMAIN s : ~DotComponentAt(s, i)
    /\ \/ s = <<"/">>
       \/ s[Len(s)] # "/"
    /\ \A i \in 1..(Len(s) - 1) : ~(s[i] = "/" /\ s[i + 1] = "/")

RepoStrs == {s \in SeqsUpTo(Chars, MaxRepoLen) : IsPathStr(s)}

OutputStrs == SeqsUpTo(Chars, MaxOutLen)

InitCleanup ==
    /\ AnalyzeIdle
    /\ cf = cfIdle
    /\ lg = lgIdle
    /\ doc = docIdle
    /\ fr = frIdle
    /\ lf = lfIdle
    /\ http = httpIdle
    /\ \E r \in RepoStrs, o \in OutputStrs :
          cl = [pc |-> "start", repo_str |-> r, output |-> o,
                once |-> <<>>, twice |-> <<>>]

\* self._cleanup_output(output)
CleanupOnce ==
    /\ cl.pc = "start"
    /\ cl' = [cl EXCEPT !.pc = "once",
                        !.once = ReplaceRepoPath(cl.repo_str, cl.output)]
    /\ UNCHANGED <<analyze_vars, doc, fr, lf, http, cf, lg>>

\* self._cleanup_output(self._cleanup_output(output))
CleanupTwice ==
    /\ cl.pc = "once"
    /\ cl' = [cl EXCEPT !.pc = "twice",
                        !.twice = ReplaceRepoPath(cl.repo_str, cl.once)]
    /\ UNCHANGED <<analyze_vars, doc, fr, lf, http, cf, lg>>

NextCleanup == CleanupOnce \/ CleanupTwice

SpecCleanup == InitCleanup /\ [][NextCleanup]_vars

(***************************************************************************)
(* The document command: DocumenterAgent.run and its _run_agent            *)
(***************************************************************************)
MaxDocLen == 3

\* markdown_content values the Agent Runtime may return for the README:
\* short texts that may name the repository by its absolute path.
DocOutputs == SeqsUpTo({"/", "r", "x"}, MaxDocLen)

\* Where the code after agent.run can raise: the metrics log (lines
\* 103-112), open (117), write (118-119), the span attribute (121).  The
\* parent of README.md is the repository, which exists, so mkdir (115) has
\* nothing to make.
DocFaults == {"none", "metrics", "open", "write", "span_attr"}

\* DocumenterAgent.validate_succession: raise unless README.md exists.
DocValidateSuccession(readme) ==
    IF readme.exists THEN "returned" ELSE "raise"

\* _run_agent, lines 103-124, once agent.run has returned `out`, raising at
\* `fault`: markdown_content is written as it is, and whatever is raised
\* is logged by the except clause, so that the coroutine returns.
DocPersist(file, dir, repo, out, fault) ==
    CASE fault = "metrics" ->
           [file |-> file, dir |-> dir, st |-> "ok"]
      [] fault = "open" ->
           [file |-> file, dir |-> dir, st |-> "ok"]
      [] fault = "write" ->
           [file |-> File(<<>>), dir |-> dir, st |-> "ok"]
      [] fault = "span_attr" ->
           [file |-> File(out), dir |-> dir, st |-> "ok"]
      [] fault = "none" ->
           [file |-> File(out), dir |-> dir, st |-> "ok"]

InitDocumenter ==
    /\ AnalyzeIdle
    /\ cf = cfIdle
    /\ lg = lgIdle
    /\ cl = clIdle
    /\ fr = frIdle
    /\ lf = lfIdle
    /\ http = httpIdle
    /\ \E r \in RepoPaths, f \in {NoFile, File(OldContent)} :
          doc = [pc |-> "start", error |-> "none", repo_path |-> r,
                 readme |-> f, readme0 |-> f, wrapper |-> "none",
                 fault |-> "none", out |-> NoOutput, agent_calls |-> 0]

\* run, lines 84-89, and _run_agent up to its first suspension: the prompt
\* is rendered and the agent built, the event is added (line 93, outside
\* the try), then agent.run is awaited.
DocRunStart ==
    /\ doc.pc = "start"
    /\ \/ \E e \in {"BuildError", "event"} :
             doc' = [doc EXCEPT !.pc = "raised", !.error = e]
       \/ doc' = [doc EXCEPT !.pc = "running", !.agent_calls = 1]
    /\ UNCHANGED <<analyze_vars, cl, fr, lf, http, cf, lg>>

\* agent.run raises: the except clause at lines 123-124 logs the error and
\* _run_agent returns; run returns after it.
DocRuntimeRaises ==
    /\ doc.pc = "running"
    /\ doc' = [doc EXCEPT !.pc = "returned", !.wrapper = "ok",
                          !.fault = "runtime"]
    /\ UNCHANGED <<analyze_vars, cl, fr, lf, http, cf, lg>>

\* agent.run returns a result: lines 102-121, then run returns.
DocRuntimeReturns ==
    /\ doc.pc = "running"
    /\ \E out \in DocOutputs, fault \in DocFaults :
          LET r == DocPersist(doc.readme, TRUE, doc.repo_path, out, fault)
          IN  doc' = [doc EXCEPT !.pc = "returned", !.wrapper = r.st,
                                !.readme = r.file, !.fault = fault,
                                !.out = out]
    /\ UNCHANGED <<analyze_vars, cl, fr, lf, http, cf, lg>>

NextDocumenter ==
    \/ DocRunStart
    \/ DocRuntimeRaises
    \/ DocRuntimeReturns

SpecDocumenter == InitDocumenter /\ [][NextDocumenter]_vars

(***************************************************************************)
(* FileReadTool._run                                                       *)
(***************************************************************************)
MaxLines == 2
MaxLineArg == 3

\* What file_path names: nothing, a text file, a file the process may not
\* read, a directory, a file that is not text in the default encoding, a
\* file removed between os.path.exists and open.
PathKinds == {"missing", "text", "denied", "directory", "undecodable", "vanished"}

\* The exception open or readlines raises for a path of that kind.
ReadError(kind) ==
    CASE kind = "denied" -> "PermissionError"
      [] kind = "directory" -> "IsADirectoryError"
      [] kind = "undecodable" -> "UnicodeDecodeError"
      [] kind = "vanished" -> "FileNotFoundError"
      [] kind = "text" -> "none"

\* Only the PermissionError clause: any other error escapes as it is.
HandleOnlyPermissionError(exc) ==
    IF exc = "PermissionError"
    THEN [raised |-> "ModelRetry", message |-> "Permission denied"]
    ELSE [raised |-> exc, message |-> "none"]

\* The except clauses, lines 50-53: every exception class the try block can
\* raise derives from Exception.
HandleReadError(exc) ==
    IF exc = "PermissionError"
    THEN [raised |-> "ModelRetry", message |-> "Permission denied"]
    ELSE [raised |-> "ModelRetry", message |-> "Failed to read file"]

\* lines[n:] for n > 0
DropFirst(lines, n) ==
    IF n >= Len(lines) THEN <<>> ELSE SubSeq(lines, n + 1, Len(lines))

\* lines[:c] for c > 0
TakeFirst(lines, c) ==
    IF c >= Len(lines) THEN lines ELSE SubSeq(lines, 1, c)

\* Lines 35-46: the window of the file and the header that describes it.
ReadWindow(lines, line_number, line_count) ==
    LET from == IF line_number > 0 THEN DropFirst(lines, line_number) ELSE lines
        window == IF line_count > 0 THEN TakeFirst(from, line_count) ELSE from
    IN  [first |-> line_number, last |-> line_number + line_count,
         total |-> Len(lines), window |-> window]

NoWindow == [first |-> 0, last |-> 0, total |-> 0, window |-> <<>>]

InitFileRead ==
    /\ AnalyzeIdle
    /\ cf = cfIdle
    /\ lg = lgIdle
    /\ doc = docIdle
    /\ cl = clIdle
    /\ lf = lfIdle
    /\ http = httpIdle
    /\ \E kind \in PathKinds,
          lines \in SeqsUpTo({"a", "b"}, MaxLines),
          n \in (-1)..MaxLineArg, c \in (-1)..MaxLineArg :
          /\ kind # "text" => lines = <<>>
          /\ fr = [pc |-> "start", kind |-> kind, lines |-> lines,
                   line_number |-> n, line_count |-> c,
                   raised |-> "none", message |-> "none", output |-> NoWindow]

\* Lines 29-30: os.path.exists(file_path) is false.
FileReadNotFound ==
    /\ fr.pc = "start"
    /\ fr.kind = "missing"
    /\ fr' = [fr EXCEPT !.pc = "raised", !.raised = "ModelRetry",
                        !.message = "File not found"]
    /\ UNCHANGED <<analyze_vars, doc, cl, lf, http, cf, lg>>

\* Lines 33-49: the file is read and its window returned.
FileReadReturns ==
    /\ fr.pc = "start"
    /\ fr.kind = "text"
    /\ fr' = [fr EXCEPT !.pc = "returned",
                        !.output = ReadWindow(fr.lines, fr.line_number, fr.line_count)]
    /\ UNCHANGED <<analyze_vars, doc, cl, lf, http, cf, lg>>

\* Lines 33-53: open or readlines raises, or the span attribute of the
\* output (line 47) does, and an except clause turns it into ModelRetry.
FileReadFails ==
    /\ fr.pc = "start"
    /\ fr.kind # "missing"
    /\ \E exc \in {ReadError(fr.kind), "Exception"} :
          /\ exc # "none"
          /\ exc = "Exception" => fr.kind = "text"
          /\ LET h == HandleReadError(exc)
             IN  fr' = [fr EXCEPT !.pc = "raised", !.raised = h.raised,
                                 !.message = h.message]
    /\ UNCHANGED <<analyze_vars, doc, cl, lf, http, cf, lg>>

NextFileRead ==
    \/ FileReadNotFound
    \/ FileReadReturns
    \/ FileReadFails

SpecFileRead == InitFileRead /\ [][NextFileRead]_vars

(***************************************************************************)
(* ListFilesTool._run                                                      *)
(***************************************************************************)
\* Entries of DEFAULT_IGNORED_DIRS and DEFAULT_IGNORED_EXTENSIONS.
IgnoredDirs == {"build"}
IgnoredExtensions == {".pyc"}

\* The directory argument, as the text the Agent Runtime passes: the empty
\* string, the root, and relative names with and without a trailing
\* separator.  "w" and "build" are directories, "locked" may not be read,
\* "nodir" does not exist.
DirArgs ==
    {<<>>, <<"/">>, <<"w">>, <<"w", "/">>, <<"build">>, <<"build", "/">>,
     <<"locked">>, <<"nodir">>}

WalkableArgs == {<<"w">>, <<"build">>}

\* File names: a stem and an extension.
FileNames == {<<"a", ".py">>, <<"b", ".pyc">>}

\* sorted() on the file names of one directory.
NameOrder == <<<<"a", ".py">>, <<"b", ".pyc">>>>

\* The orders in which os.walk may yield the directories of the tree, each
\* relative to the top: a directory comes after its parent.
WalkOrders ==
    {<<<<>>, <<"src">>, <<"build">>, <<"build", "src">>>>,
     <<<<>>, <<"build">>, <<"src">>, <<"build", "src">>>>,
     <<<<>>, <<"build">>, <<"build", "src">>, <<"src">>>>}

\* The file names of one directory, in the order scandir gives them.
FileLists ==
    {<<>>, <<NameOrder[1]>>, <<NameOrder[2]>>, NameOrder,
     <<NameOrder[2], NameOrder[1]>>}

\* line 258-259: directory[-1] raises IndexError on the empty string.
StripSlash(directory) ==
    IF directory = <<>> THEN [raised |-> "IndexError", directory |-> directory]
    ELSE IF directory[Len(directory)] = "/"
    THEN [raised |-> "none",
          directory |-> SubSeq(directory, 1, Len(directory) - 1)]
    ELSE [raised |-> "none", directory |-> directory]

\* Path(root).parts for root = os.path.join(directory, rel): the components
\* of the argument followed by those below it.
RootParts(directory, rel) ==
    SelectSeq(directory, LAMBDA c : c # "/") \o rel

\* lines 266-268
Skipped(directory, rel) ==
    \E i \in DOMAIN RootParts(directory, rel) :
        RootParts(directory, rel)[i] \in IgnoredDirs

\* lines 271-275: "/" for the top, "/" + relpath below it.
RelDir(rel) == IF rel = <<>> THEN <<"/">> ELSE PathStr(rel)

\* line 280: filename.endswith(ext) for some ignored extension.
IgnoredName(name) == name[Len(name)] \in IgnoredExtensions

\* sorted(dir_files.keys())
KeyOrder ==
    <<RelDir(<<>>), RelDir(<<"build">>), RelDir(<<"build", "src">>),
      RelDir(<<"src">>)>>

\* sorted(xs) for distinct xs, by the order of `order`.
Sorted(xs, order) ==
    SelectSeq(order, LAMBDA x : \E i \in DOMAIN xs : xs[i] = x)

\* lines 262-282: dir_files after the walk that yields `visits`.
RECURSIVE DirFiles(_, _)
DirFiles(directory, visits) ==
    IF visits = <<>> THEN <<>>
    ELSE LET v == visits[1]
             kept == SelectSeq(v.files, LAMBDA n : ~IgnoredName(n))
             rest == DirFiles(directory, Tail(visits))
         IN  IF Skipped(directory, v.rel) \/ kept = <<>>
             THEN rest
             ELSE <<[dir |-> RelDir(v.rel), files |-> kept]>> \o rest

\* lines 285-295: the result string.
ListResult(directory, visits) ==
    LET dir_files == DirFiles(directory, visits)
        keys == [i \in DOMAIN dir_files |-> dir_files[i].dir]
        FilesOf(k) ==
            dir_files[CHOOSE i \in DOMAIN dir_files : dir_files[i].dir = k].files
    IN  IF dir_files = <<>>
        THEN [kind |-> "No files found", directory |-> directory, groups |-> <<>>]
        ELSE [kind |-> "Files grouped by directory", directory |-> directory,
              groups |-> [i \in DOMAIN Sorted(keys, KeyOrder) |->
                            [dir |-> Sorted(keys, KeyOrder)[i],
                             files |-> Sorted(FilesOf(Sorted(keys, KeyOrder)[i]),
                                              NameOrder)]]]

NoResult == [kind |-> "none", directory |-> <<>>, groups |-> <<>>]

\* os.walk(directory): nothing for a directory that does not exist or may
\* not be read (scandir's error is swallowed), else one visit per directory.
Walk(directory, tree) ==
    IF directory \in WalkableArgs THEN tree ELSE <<>>

InitListFiles ==
    /\ AnalyzeIdle
    /\ cf = cfIdle
    /\ lg = lgIdle
    /\ doc = docIdle
    /\ cl = clIdle
    /\ fr = frIdle
    /\ http = httpIdle
    /\ \E d \in DirArgs, o \in WalkOrders :
       \E fl \in [DOMAIN o -> FileLists] :
          /\ StripSlash(d).directory \notin WalkableArgs
                => \A i \in DOMAIN o : fl[i] = <<>>
          /\ lf = [pc |-> "start", directory |-> d,
                   tree |-> [i \in DOMAIN o |-> [rel |-> o[i], files |-> fl[i]]],
                   raised |-> "none", result |-> NoResult]

\* _run raises at line 258.
ListFilesRaises ==
    /\ lf.pc = "start"
    /\ StripSlash(lf.directory).raised # "none"
    /\ lf' = [lf EXCEPT !.pc = "raised",
                        !.raised = StripSlash(lf.directory).raised]
    /\ UNCHANGED <<analyze_vars, doc, cl, fr, http, cf, lg>>

\* _run returns its result string.
ListFilesReturns ==
    /\ lf.pc = "start"
    /\ StripSlash(lf.directory).raised = "none"
    /\ LET d == StripSlash(lf.directory).directory
       IN  lf' = [lf EXCEPT !.pc = "returned",
                           !.result = ListResult(d, Walk(d, lf.tree))]
    /\ UNCHANGED <<analyze_vars, doc, cl, fr, http, cf, lg>>

NextListFiles ==
    \/ ListFilesRaises
    \/ ListFilesReturns

SpecListFiles == InitListFiles /\ [][NextListFiles]_vars

(***************************************************************************)
(* create_retrying_client: one request through AsyncTenacityTransport      *)
(***************************************************************************)
\* config.HTTP_RETRY_MAX_ATTEMPTS, at the value the module documents.
HTTP_RETRY_MAX_ATTEMPTS == 5

\* How one attempt of the wrapped transport can end: a response with a
\* status code, or an exception: the builtin ConnectionError (a reset or
\* refused connection) or an httpx TransportError, which is not one.
Responses ==
    {[status |-> c, exc |-> "none"] : c \in {200, 400, 401, 500, 429, 502, 503, 504}}

TransportExceptions ==
    {[status |-> 0, exc |-> e] : e \in {"ConnectionError", "TransportError"}}

AttemptOutcomes == Responses \cup TransportExceptions

\* A retry rule that takes every server error for a temporary one.
ShouldRetryAnyServerError(status) == status >= 500

\* should_retry_status, line 55: raise_for_status() for these codes.
ShouldRetryStatus(status) == status \in {429, 502, 503, 504}

\* What the body of an attempt raises: the transport's exception, or
\* HTTPStatusError from validate_response.
AttemptException(o) ==
    IF o.exc # "none" THEN o.exc
    ELSE IF ShouldRetryStatus(o.status) THEN "HTTPStatusError"
    ELSE "none"

\* retry_if_exception_type((HTTPStatusError, ConnectionError)), line 64
RetryIf(exc) == exc \in {"HTTPStatusError", "ConnectionError"}

\* A stop rule that is off by one.
StopAfterAttemptExclusive(attempt_number) ==
    attempt_number > HTTP_RETRY_MAX_ATTEMPTS

\* stop_after_attempt(config.HTTP_RETRY_MAX_ATTEMPTS), line 76
StopAfterAttempt(attempt_number) ==
    attempt_number >= HTTP_RETRY_MAX_ATTEMPTS

NoOutcome == [status |-> 0, exc |-> "none"]

InitHttp ==
    /\ AnalyzeIdle
    /\ cf = cfIdle
    /\ lg = lgIdle
    /\ doc = docIdle
    /\ cl = clIdle
    /\ fr = frIdle
    /\ lf = lfIdle
    /\ http = [pc |-> "sending", attempts |-> 0, history |-> <<>>,
               response |-> NoOutcome, raised |-> "none"]

\* An attempt gets a response that validate_response accepts: it is
\* returned to the caller.
HttpAttemptReturns ==
    /\ http.pc = "sending"
    /\ \E o \in AttemptOutcomes :
          /\ AttemptException(o) = "none"
          /\ http' = [http EXCEPT !.pc = "returned",
                                  !.attempts = http.attempts + 1,
                                  !.history = Append(http.history, o),
                                  !.response = o]
    /\ UNCHANGED <<analyze_vars, doc, cl, fr, lf, cf, lg>>

\* An attempt raises an exception the retry rule matches before the stop
\* rule holds: the controller waits and makes another attempt.
HttpAttemptRetried ==
    /\ http.pc = "sending"
    /\ \E o \in AttemptOutcomes :
          /\ RetryIf(AttemptException(o))
          /\ ~StopAfterAttempt(http.attempts + 1)
          /\ http' = [http EXCEPT !.attempts = http.attempts + 1,
                                  !.history = Append(http.history, o)]
    /\ UNCHANGED <<analyze_vars, doc, cl, fr, lf, cf, lg>>

\* An attempt raises an exception the retry rule does not match, or one it
\* matches when the stop rule holds: with reraise=True that exception is
\* raised to the caller.
HttpAttemptRaises ==
    /\ http.pc = "sending"
    /\ \E o \in AttemptOutcomes :
          /\ AttemptException(o) # "none"
          /\ RetryIf(AttemptException(o)) => StopAfterAttempt(http.attempts + 1)
          /\ http' = [http EXCEPT !.pc = "raised",
                                  !.attempts = http.attempts + 1,
                                  !.history = Append(http.history, o),
                                  !.raised = AttemptException(o)]
    /\ UNCHANGED <<analyze_vars, doc, cl, fr, lf, cf, lg>>

NextHttp ==
    \/ HttpAttemptReturns
    \/ HttpAttemptRetried
    \/ HttpAttemptRaises

SpecHttp == InitHttp /\ [][NextHttp]_vars

(***************************************************************************)
(* load_config: the config file, the command line, the model defaults      *)
(***************************************************************************)
\* A key a dictionary does not have, and Python's None.
Absent == "absent"
None == "None"

\* The files a configuration can come from: the two default files of the
\* repository named on the command line, and the file --config names.
ConfigYaml == ".ai/config.yaml"
ConfigYml == ".ai/config.yml"
CustomFile == "custom.yaml"
ConfigFiles == {ConfigYaml, ConfigYml, CustomFile}

\* The fields: repo_path (required), config, one flag of the handler's
\* model and one flag of its nested ReadmeConfig model.
NoReadme == [present |-> FALSE, use_existing_readme |-> Absent]

EmptyDict ==
    [repo_path |-> Absent, config |-> Absent,
     exclude_code_structure |-> Absent, readme |-> NoReadme]

\* What the section of the handler can hold in .ai/config.yaml.
FileSections ==
    {[repo_path |-> r, config |-> Absent, exclude_code_structure |-> e,
      readme |-> rd] :
        r \in {Absent, "/f"},
        e \in {Absent, "true", "false"},
        rd \in {NoReadme} \cup
               {[present |-> TRUE, use_existing_readme |-> u] :
                    u \in {Absent, "true", "false"}}}

\* What it holds in .ai/config.yml and in the file --config names.
YmlSection == [EmptyDict EXCEPT !.exclude_code_structure = "false"]
CustomSection == [EmptyDict EXCEPT !.repo_path = "/f",
                                   !.exclude_code_structure = "true"]

\* The namespace parse_args returns: None for what was not passed; a
\* store_true flag is None or True (main.py lines 109-129).
ArgsSpace ==
    [repo_path : {None, "/c"},
     config : {None, CustomFile},
     config_path : {None, CustomFile},
     exclude_code_structure : {None, "true"},
     use_existing_readme : {None, "true"}]

\* load_config_from_file, lines 70-77: the path it reads.  In the third
\* branch config_path is the None the second branch bound, and Path(None)
\* raises TypeError.
ConfigPath(args) ==
    IF args.repo_path # None THEN [raised |-> "none", path |-> ConfigYaml]
    ELSE IF args.config # None THEN [raised |-> "none", path |-> args.config]
    ELSE IF args.config_path # None THEN [raised |-> "TypeError", path |-> None]
    ELSE [raised |-> "none", path |-> None]

\* load_config_from_file, lines 79-89: the section of the file, or {}.
LoadConfigFromFile(args, files) ==
    LET c == ConfigPath(args) IN
    IF c.raised # "none"
    THEN [raised |-> c.raised, from |-> None, config |-> EmptyDict]
    ELSE IF c.path # None /\ files[c.path].exists
    THEN [raised |-> "none", from |-> c.path, config |-> files[c.path].section]
    ELSE [raised |-> "none", from |-> None, config |-> EmptyDict]

\* load_config_as_dict without the "is not None" test: every attribute of
\* args is taken.
LoadConfigAsDictWithNone(args) ==
    [repo_path |-> args.repo_path,
     config |-> args.config,
     exclude_code_structure |-> args.exclude_code_structure,
     readme |-> [present |-> TRUE,
                 use_existing_readme |-> args.use_existing_readme]]

\* load_config_as_dict, lines 108-121: the attributes of args that are not
\* None, a nested model as a nested dictionary (which is always set).
LoadConfigAsDict(args) ==
    LET Given(v) == IF v # None THEN v ELSE Absent IN
    [repo_path |-> Given(args.repo_path),
     config |-> Given(args.config),
     exclude_code_structure |-> Given(args.exclude_code_structure),
     readme |-> [present |-> TRUE,
                 use_existing_readme |-> Given(args.use_existing_readme)]]

\* utils.dict.merge_dicts: a key of override replaces the key of base,
\* except that two dictionaries under one key are merged key by key.
MergeDicts(base, override) ==
    LET Over(b, o) == IF o # Absent THEN o ELSE b IN
    [repo_path |-> Over(base.repo_path, override.repo_path),
     config |-> Over(base.config, override.config),
     exclude_code_structure |->
        Over(base.exclude_code_structure, override.exclude_code_structure),
     readme |->
        IF base.readme.present /\ override.readme.present
        THEN [present |-> TRUE,
              use_existing_readme |-> Over(base.readme.use_existing_readme,
                                           override.readme.use_existing_readme)]
        ELSE IF override.readme.present THEN override.readme
        ELSE base.readme]

\* resolve_default_config_path, base_handler.py lines 9-27, for the
\* repository the files belong to.
ResolveDefaultConfigPath(repo_path, files) ==
    IF repo_path # "/c" THEN None
    ELSE IF files[ConfigYaml].exists THEN ConfigYaml
    ELSE IF files[ConfigYml].exists THEN ConfigYml
    ELSE None

\* handler_config(**config): a missing required field is a
\* ValidationError, a missing optional one gets its default, and the
\* validator of BaseHandlerConfig (lines 37-48) resolves config.
Instantiate(config, files) ==
    LET Default(v, d) == IF v # Absent THEN v ELSE d IN
    IF config.repo_path = Absent
    THEN [raised |-> "ValidationError", model |-> EmptyDict]
    ELSE [raised |-> "none",
          model |->
            [repo_path |-> config.repo_path,
             config |-> Default(config.config,
                                ResolveDefaultConfigPath(config.repo_path, files)),
             exclude_code_structure |->
                Default(config.exclude_code_structure, "false"),
             readme |-> [present |-> TRUE,
                         use_existing_readme |->
                            Default(config.readme.use_existing_readme, "false")]]]

InitConfig ==
    /\ AnalyzeIdle
    /\ doc = docIdle
    /\ cl = clIdle
    /\ fr = frIdle
    /\ lf = lfIdle
    /\ http = httpIdle
    /\ lg = lgIdle
    /\ \E args \in ArgsSpace, sec \in FileSections,
          present \in SUBSET ConfigFiles :
          cf = [pc |-> "start", args |-> args,
                files |-> [f \in ConfigFiles |->
                             [exists |-> f \in present,
                              section |-> CASE f = ConfigYaml -> sec
                                            [] f = ConfigYml -> YmlSection
                                            [] f = CustomFile -> CustomSection]],
                from |-> None, file_config |-> EmptyDict,
                raised |-> "none", model |-> EmptyDict]

\* load_config, line 146: load_config_from_file(args, file_key)
ConfigLoadFile ==
    /\ cf.pc = "start"
    /\ LET r == LoadConfigFromFile(cf.args, cf.files) IN
       cf' = [cf EXCEPT !.pc = IF r.raised = "none" THEN "file_loaded" ELSE "raised",
                        !.raised = r.raised,
                        !.from = r.from,
                        !.file_config = r.config]
    /\ UNCHANGED <<analyze_vars, doc, cl, fr, lf, http, lg>>

\* load_config, lines 147-151: the command line is merged over the file
\* and the model is instantiated.
ConfigBuild ==
    /\ cf.pc = "file_loaded"
    /\ LET r == Instantiate(MergeDicts(cf.file_config, LoadConfigAsDict(cf.args)),
                            cf.files) IN
       cf' = [cf EXCEPT !.pc = IF r.raised = "none" THEN "returned" ELSE "raised",
                        !.raised = r.raised,
                        !.model = r.model]
    /\ UNCHANGED <<analyze_vars, doc, cl, fr, lf, http, lg>>

NextConfig ==
    \/ ConfigLoadFile
    \/ ConfigBuild

SpecConfig == InitConfig /\ [][NextConfig]_vars

(***************************************************************************)
(* Logger: the class attribute _logger and the calls made on the class     *)
(***************************************************************************)
MaxLoggerCalls == 3

\* The arguments of an init call.
InitArgs ==
    [log_dir : {"logs1", "logs2"},
     file_level : {"INFO", "DEBUG"},
     console_level : {"WARNING", "ERROR"}]

\* Where init can raise: log_dir.mkdir (line 79) and logging.FileHandler,
\* which opens the log file (line 90).
InitFaults == {"none", "mkdir", "file_handler"}

LoggerMethods == {"get_logger", "info", "debug", "warning", "error", "critical"}

\* The handlers lines 90-99 add.
HandlersFor(a) ==
    <<[kind |-> "file", level |-> a.file_level, log_dir |-> a.log_dir],
      [kind |-> "console", level |-> a.console_level, log_dir |-> None]>>

\* Logger.init, lines 74-102, on the class state l: _logger is assigned
\* (line 82) after mkdir and before the handlers are made.
LoggerInitStep(l, a, fault) ==
    IF l.logger # None
    THEN [logger |-> l.logger, handlers |-> l.handlers,
          warnings |-> l.warnings + 1, raised |-> "none", how |-> "already"]
    ELSE CASE fault = "mkdir" ->
                [logger |-> None, handlers |-> l.handlers,
                 warnings |-> l.warnings, raised |-> "OSError", how |-> fault]
           [] fault = "file_handler" ->
                [logger |-> "ai-doc-gen", handlers |-> l.handlers,
                 warnings |-> l.warnings, raised |-> "OSError", how |-> fault]
           [] fault = "none" ->
                [logger |-> "ai-doc-gen", handlers |-> l.handlers \o HandlersFor(a),
                 warnings |-> l.warnings, raised |-> "none", how |-> fault]

\* A guard that takes a logger without handlers for an uninitialized one.
RaisesUnlessHandlers(l) ==
    IF l.logger = None \/ l.handlers = <<>> THEN "ValueError" ELSE "none"

\* The guard of get_logger and of the five message methods:
\* "if cls._logger is None: raise ValueError(...)".
RaisesIfUninitialized(l) ==
    IF l.logger = None THEN "ValueError" ELSE "none"

InitLogger ==
    /\ AnalyzeIdle
    /\ doc = docIdle
    /\ cl = clIdle
    /\ fr = frIdle
    /\ lf = lfIdle
    /\ http = httpIdle
    /\ cf = cfIdle
    /\ lg = [pc |-> "loaded", logger |-> None, handlers |-> <<>>,
             warnings |-> 0, calls |-> 0, init_log |-> <<>>,
             last |-> [op |-> "none", raised |-> "none"]]

\* Logger.init(log_dir, file_level, console_level)
LoggerInit ==
    /\ lg.pc = "loaded"
    /\ lg.calls < MaxLoggerCalls
    /\ \E a \in InitArgs, fault \in InitFaults :
          LET r == LoggerInitStep(lg, a, fault) IN
          /\ lg.logger # None => fault = "none"
          /\ lg' = [lg EXCEPT !.logger = r.logger,
                              !.handlers = r.handlers,
                              !.warnings = r.warnings,
                              !.calls = lg.calls + 1,
                              !.init_log = Append(lg.init_log,
                                                  [args |-> a, how |-> r.how]),
                              !.last = [op |-> "init", raised |-> r.raised]]
    /\ UNCHANGED <<analyze_vars, doc, cl, fr, lf, http, cf>>

\* Logger.get_logger(), Logger.info(...), ..., Logger.critical(...)
LoggerCall ==
    /\ lg.pc = "loaded"
    /\ lg.calls < MaxLoggerCalls
    /\ \E m \in LoggerMethods :
          lg' = [lg EXCEPT !.calls = lg.calls + 1,
                          !.last = [op |-> m, raised |-> RaisesIfUninitialized(lg)]]
    /\ UNCHANGED <<analyze_vars, doc, cl, fr, lf, http, cf>>

NextLogger ==
    \/ LoggerInit
    \/ LoggerCall

SpecLogger == InitLogger /\ [][NextLogger]_vars

(***************************************************************************)
(* Vocabulary of the properties                                            *)
(***************************************************************************)
\* run got past gather: it returned, or raised something other than the
\* configuration error of __init__ or an error while building the tasks.
RunEnded ==
    /\ pc \in {"returned", "raised"}
    /\ run_error \notin {"ConfigError", "BuildError"}

TaskSt(i) == ts[tasks[i].kind].st

\* The analysis kinds the configuration leaves enabled, toggle by toggle.
EnabledKinds ==
    {k \in Kinds :
        \/ k = "code_structure" /\ ~cfg.exclude_code_structure
        \/ k = "dependencies" /\ ~cfg.exclude_dependencies
        \/ k = "data_flow" /\ ~cfg.exclude_data_flow
        \/ k = "request_flow" /\ ~cfg.exclude_request_flow
        \/ k = "api_analysis" /\ ~cfg.exclude_api_analysis}

\* What the outcome t of a task leaves at its output path, which held `old`
\* when run started.
OutcomeFile(old, t) ==
    CASE t.st = "ok" -> File(CleanupOutput(cfg.repo_path, t.out))
      [] t.st = "failed" /\ t.err = "span_attr" ->
            File(CleanupOutput(cfg.repo_path, t.out))
      [] t.st = "failed" /\ t.err = "write" -> File(<<>>)
      [] OTHER -> old

(***************************************************************************)
(* C1: partial tolerance.  Whenever run has ended with at least two tasks  *)
(* dispatched, one of them failed and one succeeded, run returned          *)
(* normally, the artifact of every succeeded task exists and the output    *)
(* path of every failed task is absent.                                    *)
(***************************************************************************)
C1_PartialTolerance ==
    ( /\ RunEnded
      /\ Len(tasks) >= 2
      /\ \E i \in DOMAIN tasks : TaskSt(i) = "failed"
      /\ \E i \in DOMAIN tasks : TaskSt(i) = "ok" )
    => /\ pc = "returned"
       /\ \A i \in DOMAIN tasks :
             /\ TaskSt(i) = "ok" => fs[tasks[i].file_path].exists
             /\ TaskSt(i) = "failed" => ~fs[tasks[i].file_path].exists

(***************************************************************************)
(* C2: total failure.  Whenever run has ended and every dispatched task    *)
(* failed, run raised the total-failure error and no expected artifact     *)
(* exists.                                                                 *)
(***************************************************************************)
C2_TotalFailure ==
    ( /\ RunEnded
      /\ \A i \in DOMAIN tasks : TaskSt(i) = "failed" )
    => /\ pc = "raised"
       /\ run_error = "TotalFailure"
       /\ \A i \in DOMAIN analysis_files : ~fs[analysis_files[i]].exists

(***************************************************************************)
(* C3: total success.  Whenever run has ended and every dispatched task    *)
(* succeeded, run returned normally with no error, and every expected      *)
(* artifact exists and holds the sanitized output of its task.             *)
(***************************************************************************)
C3_TotalSuccess ==
    ( /\ RunEnded
      /\ \A i \in DOMAIN tasks : TaskSt(i) = "ok" )
    => /\ pc = "returned"
       /\ run_error = "none"
       /\ \A i \in DOMAIN analysis_files :
             fs[analysis_files[i]] =
                File(CleanupOutput(cfg.repo_path, ts[tasks[i].kind].out))

(***************************************************************************)
(* C4: succession policy.  For a non-empty list of expected paths,         *)
(* validate_succession raises exactly when none of them exists; when all   *)
(* exist it returns reporting all generated; when some but not all exist   *)
(* it returns reporting exactly the missing paths and the ratio            *)
(* existing/expected.                                                      *)
(***************************************************************************)
ExistingAt == {i \in DOMAIN vs_files : fs[vs_files[i]].exists}

C4_SuccessionPolicy ==
    (pc # "succession" /\ vs_files # <<>>)
    => /\ (pc = "raised") <=> (ExistingAt = {})
       /\ (pc = "raised") => run_error = "TotalFailure"
       /\ ExistingAt = DOMAIN vs_files =>
             (pc = "returned" /\ vs_out.status = "all")
       /\ (ExistingAt # {} /\ ExistingAt # DOMAIN vs_files) =>
             /\ pc = "returned"
             /\ vs_out.status = "partial"
             /\ {vs_out.missing[j] : j \in DOMAIN vs_out.missing} =
                   {vs_files[i] : i \in (DOMAIN vs_files) \ ExistingAt}
             /\ Len(vs_out.missing) = Len(vs_files) - Cardinality(ExistingAt)
             /\ vs_out.generated = Cardinality(ExistingAt)
             /\ vs_out.total = Len(vs_files)

\* A partial success: three expected paths, exactly one of them missing.
C4_Witness ==
    /\ pc = "returned"
    /\ Len(vs_files) = 3
    /\ Cardinality(ExistingAt) = 2
    /\ vs_out.status = "partial"
    /\ Len(vs_out.missing) = 1

(***************************************************************************)
(* C5: no cascade cancellation.  A step in which one task fails leaves     *)
(* the state of every other task as it was, and once run is past gather    *)
(* with a failed task, every dispatched task has reached its own outcome,  *)
(* with the artifact of each succeeded one written.                        *)
(***************************************************************************)
FailureTouchesNoSibling ==
    \A j \in Kinds, k \in Kinds :
        (j # k /\ ts[j].st # "failed" /\ ts'[j].st = "failed") => ts'[k] = ts[k]

SiblingsFinished ==
    (RunEnded /\ \E i \in DOMAIN tasks : TaskSt(i) = "failed")
    => \A i \in DOMAIN tasks :
          /\ TaskSt(i) \in {"ok", "failed"}
          /\ TaskSt(i) = "failed" =>
                ts[tasks[i].kind].err \in
                   {"event", "runtime", "metrics", "mkdir", "open", "write",
                    "span_attr"}
          /\ TaskSt(i) = "ok" =>
                fs[tasks[i].file_path] =
                   File(CleanupOutput(cfg.repo_path, ts[tasks[i].kind].out))

C5_NoCascadeCancellation ==
    []SiblingsFinished /\ [][FailureTouchesNoSibling]_vars

\* The first task raised before its first suspension point, and a later
\* task went on to write its artifact.
C5_Witness ==
    /\ RunEnded
    /\ \E i \in DOMAIN tasks, j \in DOMAIN tasks :
          /\ i < j
          /\ ts[tasks[i].kind].err = "event"
          /\ TaskSt(j) = "ok"
          /\ fs[tasks[j].file_path].exists

(***************************************************************************)
(* C6: whenever run is past gather, every dispatched task has returned or  *)
(* raised, and gather's results hold exactly one outcome per expected      *)
(* artifact, that of the task at the same position.                        *)
(***************************************************************************)
C6_VerdictAfterAllOutcomes ==
    RunEnded
    => /\ \A i \in DOMAIN tasks : TaskSt(i) \in {"ok", "failed"}
       /\ Len(results) = Len(analysis_files)
       /\ \A i \in DOMAIN results :
             /\ results[i].kind = tasks[i].kind
             /\ results[i].st = TaskSt(i)

\* Three tasks dispatched, with both kinds of outcome among them.
C6_Witness ==
    /\ RunEnded
    /\ Len(results) = 3
    /\ \E i \in DOMAIN tasks : TaskSt(i) = "failed"
    /\ \E i \in DOMAIN tasks : TaskSt(i) = "ok"

(***************************************************************************)
(* C7: order independence.  When run has ended, the file at every path,    *)
(* and the way run ended, are determined by the filesystem at the start    *)
(* and the outcome of each task alone, whatever the order in which the     *)
(* tasks ran and finished.                                                 *)
(***************************************************************************)
C7_OrderIndependence ==
    RunEnded
    => /\ \A i \in DOMAIN tasks :
             fs[tasks[i].file_path] =
                OutcomeFile(fs0[tasks[i].file_path], ts[tasks[i].kind])
       /\ \A p \in AllPaths :
             (\A i \in DOMAIN tasks : tasks[i].file_path # p) => fs[p] = fs0[p]
       /\ pc = "raised"
       /\ run_error = "AttributeError"

\* Two neighbouring tasks with different outcomes: the dependency analysis
\* was written, the data-flow task's agent.run raised and left no file.
C7_Witness ==
    /\ RunEnded
    /\ ts["dependencies"].st = "ok"
    /\ ts["data_flow"].st = "failed"
    /\ ts["data_flow"].err = "runtime"
    /\ fs[ExpectedFile(cfg.repo_path, "dependencies")].exists
    /\ ~fs[ExpectedFile(cfg.repo_path, "data_flow")].exists

(***************************************************************************)
(* C8: a configuration with all five exclude toggles set is rejected by    *)
(* the constructor, with no task built and no Agent Runtime call made;     *)
(* every other configuration is accepted.                                  *)
(***************************************************************************)
AllFiveSet == \A k \in Kinds : Excluded(cfg, k)

C8_AllExcludedRejected ==
    /\ pc # "start" => ((run_error = "ConfigError") <=> AllFiveSet)
    /\ (pc # "start" /\ ~AllFiveSet) => pc # "raised" \/ run_error # "ConfigError"
    /\ AllFiveSet =>
          /\ pc \in {"start", "raised"}
          /\ tasks = <<>>
          /\ analysis_files = <<>>
          /\ agent_calls = 0
          /\ fs = fs0

C8_Witness ==
    /\ AllFiveSet
    /\ pc = "raised"
    /\ run_error = "ConfigError"
    /\ agent_calls = 0

(***************************************************************************)
(* C9: once run has built its tasks, there is exactly one task and one     *)
(* expected path per enabled kind and none for an excluded kind, and the   *)
(* i-th task writes to the i-th expected path.                             *)
(***************************************************************************)
TasksBuilt ==
    \/ pc = "gather"
    \/ RunEnded

C9_OneTaskPerEnabledKind ==
    TasksBuilt
    => /\ Len(tasks) = Cardinality(EnabledKinds)
       /\ Len(analysis_files) = Cardinality(EnabledKinds)
       /\ {tasks[i].kind : i \in DOMAIN tasks} = EnabledKinds
       /\ \A i \in DOMAIN tasks : tasks[i].file_path = analysis_files[i]
       /\ \A i \in DOMAIN tasks :
             analysis_files[i] = cfg.repo_path \o <<".ai", "docs", FileName(tasks[i].kind)>>

\* Dependencies and request flow excluded: three tasks, three paths.
C9_Witness ==
    /\ pc = "gather"
    /\ cfg.exclude_dependencies /\ cfg.exclude_request_flow
    /\ ~cfg.exclude_code_structure /\ ~cfg.exclude_data_flow
    /\ ~cfg.exclude_api_analysis
    /\ Len(tasks) = 3
    /\ Len(analysis_files) = 3

(***************************************************************************)
(* C10: the output paths of the tasks of a run are pairwise distinct and   *)
(* all lie in <repo>/.ai/docs, so no two running tasks write to the same   *)
(* path.                                                                   *)
(***************************************************************************)
C10_DistinctPathsUnderDocs ==
    /\ \A i \in DOMAIN tasks, j \in DOMAIN tasks :
          i # j => tasks[i].file_path # tasks[j].file_path
    /\ \A i \in DOMAIN tasks :
          /\ Len(tasks[i].file_path) = Len(cfg.repo_path) + 3
          /\ SubSeq(tasks[i].file_path, 1, Len(cfg.repo_path) + 2) =
                cfg.repo_path \o <<".ai", "docs">>

\* All five tasks dispatched and two of them awaiting the Agent Runtime.
C10_Witness ==
    /\ pc = "gather"
    /\ Len(tasks) = 5
    /\ Cardinality({k \in Kinds : ts[k].st = "running"}) >= 2

(***************************************************************************)
(* C11: whenever the _run_agent coroutine of a task has completed without  *)
(* raising, the file at the task's output path exists and holds the        *)
(* sanitized markdown_content of the result agent.run returned in this     *)
(* run.                                                                    *)
(***************************************************************************)
C11_SuccessOnlyAfterWrite ==
    \A i \in DOMAIN tasks :
        TaskSt(i) = "ok"
        => fs[tasks[i].file_path] =
              File(CleanupOutput(cfg.repo_path, ts[tasks[i].kind].out))

\* A task succeeded over an artifact of an earlier run: the file now holds
\* this run's output, and sanitizing changed that output.
C11_Witness ==
    \E i \in DOMAIN tasks :
        /\ TaskSt(i) = "ok"
        /\ fs0[tasks[i].file_path] = File(OldContent)
        /\ fs[tasks[i].file_path].exists
        /\ fs[tasks[i].file_path].content # OldContent
        /\ fs[tasks[i].file_path].content # ts[tasks[i].kind].out

(***************************************************************************)
(* C12: whenever a task whose output path held no file when run started    *)
(* has failed while persisting (mkdir, open, sanitizing or writing), its   *)
(* outcome is a failure and its output path holds no file, so that         *)
(* validate_succession lists it as missing.                                *)
(***************************************************************************)
PersistFaults == {"mkdir", "open", "write"}

C12_PersistFailureCountsMissing ==
    \A i \in DOMAIN tasks :
        ( /\ ts[tasks[i].kind].err \in PersistFaults
          /\ ~fs0[tasks[i].file_path].exists )
        => /\ TaskSt(i) = "failed"
           /\ ~fs[tasks[i].file_path].exists
           /\ \E j \in DOMAIN MissingFiles(analysis_files, fs) :
                 MissingFiles(analysis_files, fs)[j] = analysis_files[i]

(***************************************************************************)
(* C13: for every repository path string and every output string,         *)
(* applying _cleanup_output twice gives the same string as applying it     *)
(* once.                                                                   *)
(***************************************************************************)
C13_CleanupIdempotent ==
    cl.pc = "twice" => cl.twice = cl.once

HasDot(s) == \E i \in DOMAIN s : s[i] = "."

(***************************************************************************)
(* C13 as the code has it: for every repository path string that contains  *)
(* no "." character and every output string, applying _cleanup_output      *)
(* twice gives the same string as applying it once.                        *)
(***************************************************************************)
C13_CleanupIdempotentWithoutDot ==
    (cl.pc = "twice" /\ ~HasDot(cl.repo_str)) => cl.twice = cl.once

\* A dot-free repository path of two characters or more was replaced in
\* an output that names it twice, and the second pass changed nothing.
C13_Witness ==
    /\ cl.pc = "twice"
    /\ ~HasDot(cl.repo_str)
    /\ Len(cl.repo_str) >= 2
    /\ Len(cl.once) = Len(cl.output) - 2 * (Len(cl.repo_str) - 1)
    /\ cl.twice = cl.once

(***************************************************************************)
(* C14: a failing observability step of a task (the task-started event,    *)
(* the metrics log, the span attribute) leaves the same artifacts on disk  *)
(* and the same succession verdict as the run in which that step does not  *)
(* fail and everything else is the same.                                   *)
(***************************************************************************)
ObservabilityFaults == {"event", "metrics", "span_attr"}

ObservabilityFailed(k) ==
    ts[k].st = "failed" /\ ts[k].err \in ObservabilityFaults

\* The results agent.run hands to the twin run's task of kind k: the one
\* this run got, or, when the event failed before agent.run was called, any
\* result it may return.
TwinOutputs(k) ==
    IF ts[k].err = "event" THEN Outputs(cfg.repo_path, k) ELSE {ts[k].out}

\* What the twin run's task of kind k leaves at its output path q.
TwinFiles(k, q) ==
    {Persist(fs0[q], docs_dir, cfg.repo_path, o, "none").file : o \in TwinOutputs(k)}

\* The kind of the task that writes to q.
KindOf(q) == CHOOSE k \in Kinds : TaskFile(cfg.repo_path, k) = q

\* The filesystem a twin run ends with: the tasks whose observability step
\* failed here persist their result there, every other path is as here.
TwinFs ==
    [q \in AllPaths |->
        IF \E i \in DOMAIN tasks :
              tasks[i].file_path = q /\ ObservabilityFailed(tasks[i].kind)
        THEN CHOOSE f \in TwinFiles(KindOf(q), q) : TRUE
        ELSE fs[q]]

C14_ObservabilityNeverAffectsVerdict ==
    GatherDone(ts, tasks)
    => /\ \A i \in DOMAIN tasks :
             ObservabilityFailed(tasks[i].kind)
             => \A f \in TwinFiles(tasks[i].kind, tasks[i].file_path) :
                   f.exists = fs[tasks[i].file_path].exists
       /\ ValidateSuccession(analysis_files, TwinFs).status =
             ValidateSuccession(analysis_files, fs).status

(***************************************************************************)
(* C15: whenever the documenter's agent run has finished and README.md     *)
(* does not exist under the repository root, DocumenterAgent.run (and so   *)
(* ReadmeHandler.handle, which only awaits it) has raised to its caller.   *)
(***************************************************************************)
DocAgentRunFinished ==
    /\ doc.pc \in {"returned", "raised"}
    /\ doc.agent_calls = 1

C15_MissingReadmeRaises ==
    (DocAgentRunFinished /\ DocValidateSuccession(doc.readme) = "raise")
    => doc.pc = "raised"

(***************************************************************************)
(* C16: for the same Agent Runtime result and the same failing step, the   *)
(* documenter's _run_agent leaves the file the analyzer's _run_agent would *)
(* leave (the output sanitized) and ends the same way (returning or        *)
(* raising).                                                               *)
(***************************************************************************)
C16_DocumenterIsAnalyzerWithOneTask ==
    (doc.pc = "returned" /\ doc.fault # "runtime")
    => LET a == Persist(doc.readme0, TRUE, doc.repo_path, doc.out, doc.fault)
       IN  /\ doc.readme = a.file
           /\ doc.wrapper = a.st

(***************************************************************************)
(* C17: for every path and every integer line_number and line_count,       *)
(* FileReadTool._run either returns its text result or raises ModelRetry;  *)
(* no other exception leaves it.                                           *)
(***************************************************************************)
C17_FileReadFailsRecoverably ==
    fr.pc \notin {"unused", "start"}
    => \/ /\ fr.pc = "returned"
          /\ fr.raised = "none"
          /\ fr.output = ReadWindow(fr.lines, fr.line_number, fr.line_count)
       \/ /\ fr.pc = "raised"
          /\ fr.raised = "ModelRetry"

\* A read error other than a missing file or a refused permission, with a
\* negative line_number and a zero line_count, ended in ModelRetry.
C17_Witness ==
    /\ fr.pc = "raised"
    /\ fr.kind \in {"directory", "undecodable", "vanished"}
    /\ fr.line_number < 0
    /\ fr.line_count = 0
    /\ fr.raised = "ModelRetry"
    /\ fr.message = "Failed to read file"

(***************************************************************************)
(* C18: for every directory argument, including an inaccessible or         *)
(* non-existent directory, the empty string and "/", ListFilesTool._run    *)
(* returns a result string and raises no exception.                        *)
(***************************************************************************)
C18_ListFilesNeverRaises ==
    lf.pc \notin {"unused", "start"}
    => /\ lf.pc = "returned"
       /\ lf.raised = "none"
       /\ lf.result.kind \in {"No files found", "Files grouped by directory"}

(***************************************************************************)
(* C19: a request through the retrying client makes at most                *)
(* HTTP_RETRY_MAX_ATTEMPTS (5) attempts; when it has ended and every       *)
(* attempt ended in a retryable failure, the exception of the last attempt *)
(* was raised to the caller; when an attempt got a response that is not    *)
(* a retryable failure, that response was returned.                        *)
(***************************************************************************)
RetryableFailure(o) ==
    \/ o.exc = "ConnectionError"
    \/ o.exc = "none" /\ o.status \in {429, 502, 503, 504}

HttpEnded == http.pc \in {"returned", "raised"}

LastAttempt == http.history[Len(http.history)]

C19_RetryBounded ==
    /\ http.pc # "unused" => http.attempts <= 5
    /\ http.pc # "unused" => Len(http.history) = http.attempts
    /\ ( /\ HttpEnded
         /\ \A i \in DOMAIN http.history : RetryableFailure(http.history[i]) )
       => /\ http.pc = "raised"
          /\ http.attempts = 5
          /\ http.raised = IF LastAttempt.exc = "none" THEN "HTTPStatusError"
                           ELSE LastAttempt.exc
    /\ ( /\ HttpEnded
         /\ LastAttempt.exc = "none"
         /\ ~RetryableFailure(LastAttempt) )
       => /\ http.pc = "returned"
          /\ http.response = LastAttempt

\* Five attempts, rate limits and connection errors among them, and the
\* last exception raised.
C19_Witness ==
    /\ http.pc = "raised"
    /\ http.attempts = 5
    /\ \E i \in DOMAIN http.history : http.history[i].status = 429
    /\ LastAttempt.exc = "ConnectionError"
    /\ http.raised = "ConnectionError"

(***************************************************************************)
(* C20: an attempt is followed by another one only when its response had   *)
(* status 429, 502, 503 or 504 or it raised a connection error; a response *)
(* with any other status (200, 400, 401, 500) is the last attempt and is   *)
(* returned to the caller.                                                 *)
(***************************************************************************)
C20_RetryOnlyRetryable ==
    http.pc # "unused"
    => /\ \A i \in 1..(Len(http.history) - 1) :
             RetryableFailure(http.history[i])
       /\ \A i \in DOMAIN http.history :
             (http.history[i].exc = "none" /\ ~RetryableFailure(http.history[i]))
             => /\ i = Len(http.history)
                /\ http.pc = "returned"
                /\ http.response = http.history[i]

\* A 503 was retried and the 500 that followed was returned as it is.
C20_Witness ==
    /\ http.pc = "returned"
    /\ Len(http.history) = 2
    /\ http.history[1].status = 503
    /\ http.response.status = 500

(***************************************************************************)
(* C25: given that the event loop runs the tasks and every awaited         *)
(* agent.run eventually returns or raises, every task gather dispatched    *)
(* eventually has an outcome and run eventually returns or raises; no task *)
(* waits for another.                                                      *)
(***************************************************************************)
RunOver == pc \in {"returned", "raised"}

C25_Termination ==
    /\ <>RunOver
    /\ (pc = "gather") ~> GatherDone(ts, tasks)

\* Run is over after all five tasks were dispatched and had their outcome.
C25_Witness ==
    /\ RunOver
    /\ Len(tasks) = 5
    /\ \A i \in DOMAIN tasks : TaskSt(i) \in Terminal
    /\ agent_calls >= 4

(***************************************************************************)
(* C26: the step in which the agent.run call of a task raises performs no  *)
(* filesystem operation: the docs directory is not created and no file is  *)
(* created, truncated or changed.                                          *)
(***************************************************************************)
RuntimeRaisedIn(k) ==
    /\ ts[k].st = "running"
    /\ ts'[k].st = "failed"
    /\ ts'[k].err = "runtime"

C26_RuntimeFailureTouchesNoFile ==
    [][(\E k \in Kinds : RuntimeRaisedIn(k)) => (fs' = fs /\ docs_dir' = docs_dir)]_vars

\* The agent.run call of a task raised while an artifact of an earlier run
\* was at its output path: that artifact is as it was.
C26_Witness ==
    \E i \in DOMAIN tasks :
        /\ TaskSt(i) = "failed"
        /\ ts[tasks[i].kind].err = "runtime"
        /\ fs0[tasks[i].file_path] = File(OldContent)
        /\ fs[tasks[i].file_path] = File(OldContent)

(***************************************************************************)
(* C27: if every expected artifact path held a file when run started, the  *)
(* succession check does not see a total failure and run never raises the  *)
(* total-failure error, whatever the outcomes of the tasks.                *)
(***************************************************************************)
AllExpectedPreexist ==
    /\ analysis_files # <<>>
    /\ \A i \in DOMAIN analysis_files : fs0[analysis_files[i]].exists

C28_BuildBeforeAnyCall ==
    /\ agent_calls > 0 =>
          {tasks[i].kind : i \in DOMAIN tasks} = EnabledKinds
    /\ run_error = "BuildError" =>
          /\ pc = "raised"
          /\ agent_calls = 0
          /\ fs = fs0
          /\ \A k \in Kinds : ts[k].st \in {"none", "created"}

\* The third enabled kind failed to build after two tasks were built.
C28_Witness ==
    /\ run_error = "BuildError"
    /\ Len(tasks) = 2
    /\ \A i \in DOMAIN tasks : TaskSt(i) = "created"
    /\ agent_calls = 0

(***************************************************************************)
(* C29: ListFilesTool._run lists a file if and only if no component of its *)
(* directory path relative to the given directory is in ignored_dirs and   *)
(* its name does not end with an ignored extension; the listed files are   *)
(* grouped under their relative directory ("/" for the top), with the      *)
(* directory keys and the names of each directory in sorted order.         *)
(***************************************************************************)
\* The pairs the claim says are listed.
ShouldBeListed ==
    LET visits == Walk(lf.result.directory, lf.tree) IN
    UNION {{<<RelDir(visits[i].rel), visits[i].files[j]>> :
               j \in {j \in DOMAIN visits[i].files :
                         /\ \A c \in DOMAIN visits[i].rel :
                               visits[i].rel[c] \notin IgnoredDirs
                         /\ ~IgnoredName(visits[i].files[j])}}
           : i \in DOMAIN visits}

Position(order, x) == CHOOSE i \in DOMAIN order : order[i] = x

C29_ListsExactlyTheUnignoredFiles ==
    lf.pc = "returned"
    => /\ \A i \in DOMAIN lf.result.groups :
             \A j \in DOMAIN lf.result.groups[i].files :
                <<lf.result.groups[i].dir, lf.result.groups[i].files[j]>>
                   \in ShouldBeListed
       /\ \A pair \in ShouldBeListed :
             \E i \in DOMAIN lf.result.groups :
                /\ lf.result.groups[i].dir = pair[1]
                /\ \E j \in DOMAIN lf.result.groups[i].files :
                      lf.result.groups[i].files[j] = pair[2]
       /\ \A i \in DOMAIN lf.result.groups, j \in DOMAIN lf.result.groups :
             i < j => Position(KeyOrder, lf.result.groups[i].dir)
                        < Position(KeyOrder, lf.result.groups[j].dir)
       /\ \A i \in DOMAIN lf.result.groups :
             \A j \in DOMAIN lf.result.groups[i].files,
                k \in DOMAIN lf.result.groups[i].files :
                j < k => Position(NameOrder, lf.result.groups[i].files[j])
                           < Position(NameOrder, lf.result.groups[i].files[k])

(***************************************************************************)
(* C21: for every field, load_config yields the command-line value if the  *)
(* argument was set (is not None), else the value of the loaded config     *)
(* file if it has one, else the model default; a flag that was not passed  *)
(* never overrides the value of the file.                                  *)
(***************************************************************************)
Precedence(cli, file, default) ==
    IF cli # None THEN cli
    ELSE IF file # Absent THEN file
    ELSE default

ExpectedConfigFile ==
    IF cf.args.config # None THEN
        IF cf.files[cf.args.config].exists THEN cf.args.config ELSE None
    ELSE IF cf.files[ConfigYaml].exists THEN ConfigYaml
    ELSE IF cf.files[ConfigYml].exists THEN ConfigYml
    ELSE None

C22_ConfigFileSelection ==
    (cf.pc \in {"file_loaded", "returned"} /\ cf.args.repo_path # None)
    => /\ cf.from = ExpectedConfigFile
       /\ cf.file_config = IF ExpectedConfigFile = None THEN EmptyDict
                           ELSE cf.files[ExpectedConfigFile].section

(***************************************************************************)
(* C23: after any sequence of init calls the last of which returned, the   *)
(* logger has exactly one file handler and one console handler, those of   *)
(* the first init call that got to configure it; later init calls only     *)
(* log a warning.                                                          *)
(***************************************************************************)
InitCalls == DOMAIN lg.init_log

C23_InitOneShot ==
    ( /\ lg.pc = "loaded"
      /\ lg.last.op = "init"
      /\ lg.last.raised = "none" )
    => \E i \in InitCalls :
          /\ \A j \in 1..(i - 1) : lg.init_log[j].how = "mkdir"
          /\ lg.handlers = HandlersFor(lg.init_log[i].args)

(***************************************************************************)
(* C24: get_logger, info, debug, warning, error and critical raise         *)
(* ValueError("Logger not initialized") if and only if no init call has    *)
(* happened yet.                                                           *)
(***************************************************************************)
LastIsMethod == lg.pc = "loaded" /\ lg.last.op \in LoggerMethods

C24_RaisesIffNoInit ==
    LastIsMethod
    => ((lg.last.raised = "ValueError") <=> (lg.init_log = <<>>))

(***************************************************************************)
(* C24 as the code has it: these methods raise ValueError("Logger not      *)
(* initialized") if and only if no init call has yet got past creating the *)
(* log directory (an init call that raised in mkdir leaves the logger      *)
(* uninitialized); once _logger is set it is never None again.             *)
(***************************************************************************)
NoInitPastMkdir ==
    \A i \in InitCalls : lg.init_log[i].how = "mkdir"

StaysInitialized ==
    (lg.pc = "loaded" /\ lg.logger # None) => lg'.logger # None

C24_RaisesIffNoInitPastMkdir ==
    /\ [](LastIsMethod
           => ((lg.last.raised = "ValueError") <=> NoInitPastMkdir))
    /\ [][StaysInitialized]_vars

\* An init call raised while opening the log file, after _logger was set:
\* the method called next does not raise.
C24_Witness ==
    /\ LastIsMethod
    /\ Len(lg.init_log) = 1
    /\ lg.init_log[1].how = "file_handler"
    /\ lg.last.raised = "none"
    /\ lg.handlers = <<>>

====
